---- MODULE Spec2Model ----
(***************************************************************************)
(* Model of melodygenerator_gru.py: MelodyGenerator.generate_melody (the   *)
(* autoregressive sampling loop) and MelodyGenerator.save_melody (the      *)
(* run-length decoder).                                                    *)
(*                                                                         *)
(* A Python str is a sequence of one-character strings, so that split()    *)
(* and int() are computed and not assumed.  A token is a non-empty         *)
(* sequence of characters.  Durations are in hundredths of a quarter       *)
(* length (step_duration 0.25 is 25).                                      *)
(***************************************************************************)
EXTENDS Integers, Sequences, FiniteSets, TLC

\* ---- bounds of the model ----
MaxSeedLen == 3      \* characters in the seed string
MaxSteps == 2        \* largest num_steps
MaxMelodyLen == 6    \* tokens in a melody handed to save_melody
SEQUENCE_LENGTH == 2 \* preprocess_gru.SEQUENCE_LENGTH, scaled down

\* ---- values ----
Whitespace == {" ", "\t", "\n"}
SeedChars == {" ", "/", "_", "7"}
Digits == <<"0", "1", "2", "3", "4", "5", "6", "7", "8", "9">>
TERMINATOR == <<"/">>
UNDERSCORE == <<"_">>
REST == <<"r">>
None == <<"None">>
\* the default "?" of _mappings.get: a str, the only context entry that is not an int
QUESTION == -1
Temperatures == {-1, 0, 1}
StepDurations == {25, 50}
SaveTokens == {<<"6", "0">>, <<"6", "2">>, REST, UNDERSCORE, TERMINATOR}

\* the token -> id table loaded from MAPPING_PATH, in insertion order
mappings == << <<TERMINATOR, 0>>, <<UNDERSCORE, 1>>, <<<<"7">>, 2>> >>
start_symbols == [k \in 1..SEQUENCE_LENGTH |-> TERMINATOR]

Range(s) == {s[k] : k \in 1..Len(s)}
SeqsUpTo(S, n) == UNION {[1..k -> S] : k \in 0..n}

\* ---- pure functions of generate_melody ----

\* str.split(): maximal runs of non-whitespace characters, in order
RECURSIVE SplitFrom(_, _, _, _)
SplitFrom(s, k, cur, acc) ==
    IF k > Len(s)
    THEN IF cur = <<>> THEN acc ELSE Append(acc, cur)
    ELSE IF s[k] \in Whitespace
         THEN SplitFrom(s, k + 1, <<>>, IF cur = <<>> THEN acc ELSE Append(acc, cur))
         ELSE SplitFrom(s, k + 1, Append(cur, s[k]), acc)

\* mutant: split(" "), which keeps the empty strings between separators
RECURSIVE SplitKeepEmptyFrom(_, _, _, _)
SplitKeepEmptyFrom(s, k, cur, acc) ==
    IF k > Len(s)
    THEN Append(acc, cur)
    ELSE IF s[k] \in Whitespace
         THEN SplitKeepEmptyFrom(s, k + 1, <<>>, Append(acc, cur))
         ELSE SplitKeepEmptyFrom(s, k + 1, Append(cur, s[k]), acc)

SplitKeepEmpty(s) == SplitKeepEmptyFrom(s, 1, <<>>, <<>>)

split(s) == SplitFrom(s, 1, <<>>, <<>>)

\* mutant: the melody copied after the start symbols were prepended
InitialMelodyPadded(tokens) == start_symbols \o tokens

\* melody = seed[:]
InitialMelody(tokens) == tokens

\* self._mappings.get(symbol, "?")
mappings_get(symbol) ==
    IF \E k \in 1..Len(mappings) : mappings[k][1] = symbol
    THEN mappings[CHOOSE k \in 1..Len(mappings) : mappings[k][1] = symbol][2]
    ELSE QUESTION

\* [self._mappings.get(symbol, "?") for symbol in seed]
MapSeed(symbols) == [k \in 1..Len(symbols) |-> mappings_get(symbols[k])]

\* mutant: seed[:n], the oldest entries
SliceFirst(s, n) == SubSeq(s, 1, IF n < Len(s) THEN n ELSE Len(s))

\* seed[-n:]  (Python: -0 is 0, so n = 0 keeps the whole list)
SliceLast(s, n) ==
    IF n = 0 THEN s
    ELSE IF n > 0
         THEN SubSeq(s, (IF Len(s) - n > 0 THEN Len(s) - n ELSE 0) + 1, Len(s))
         ELSE SubSeq(s, (IF -n < Len(s) THEN -n ELSE Len(s)) + 1, Len(s))

\* torch.tensor(seed) accepts a list of ints only
TensorOk(ctx) == QUESTION \notin Range(ctx)

\* np.arange(len(probabilities)): the ids that can be drawn
choices == 0..(Len(mappings) - 1)

\* next((k for k, v in self._mappings.items() if v == output_int), None)
SymbolOf(output_int) ==
    IF \E k \in 1..Len(mappings) : mappings[k][2] = output_int
    THEN LET first == CHOOSE k \in 1..Len(mappings) :
                         /\ mappings[k][2] = output_int
                         /\ \A j \in 1..(k - 1) : mappings[j][2] # output_int
         IN mappings[first][1]
    ELSE None

\* mutant: the loop goes on after the terminator
PcAfterNoBreak(output_symbol) == "loop"

\* if output_symbol == "/": break
PcAfter(output_symbol) == IF output_symbol = TERMINATOR THEN "break" ELSE "loop"

\* mutant: the symbol is appended before the terminator test
MelodyAfterAppendFirst(m, output_symbol) == Append(m, output_symbol)

\* if output_symbol == "/": break ; melody.append(output_symbol)
MelodyAfter(m, output_symbol) ==
    IF output_symbol = TERMINATOR THEN m ELSE Append(m, output_symbol)

\* ---- pure functions of save_melody ----

IsDigit(c) == \E d \in 1..10 : Digits[d] = c
DigitValue(c) == (CHOOSE d \in 1..10 : Digits[d] = c) - 1

\* int(start_symbol) succeeds on a run of decimal digits
IntOk(tok) == Len(tok) > 0 /\ \A k \in 1..Len(tok) : IsDigit(tok[k])

RECURSIVE int(_)
int(tok) ==
    IF Len(tok) = 0 THEN 0
    ELSE 10 * int(SubSeq(tok, 1, Len(tok) - 1)) + DigitValue(tok[Len(tok)])

Rest(q) == [type |-> "Rest", quarterLength |-> q]
Note(p, q) == [type |-> "Note", pitch |-> p, quarterLength |-> q]

\* ---- state ----
VARIABLES
    pc,                   \* position in generate_melody / save_melody
    seed_arg,             \* the seed string passed to generate_melody
    num_steps, max_sequence_length, temperature,
    seed,                 \* the list `seed`: the context of ids
    melody,               \* the list `melody`
    step,                 \* iterations of the for loop begun
    model_calls,          \* times self.model was invoked
    model_input,          \* the context last passed to self.model
    drawn,                \* the ids returned by _sample_with_temperature, in order
    err,                  \* the exception that ended the call, or "none"
    step_duration, i, start_symbol, step_counter,
    stream,               \* the m21 stream
    written               \* what stream.write put in the file

gen_vars == <<seed_arg, num_steps, max_sequence_length, temperature, seed,
              step, model_calls, model_input, drawn>>
save_vars == <<step_duration, i, start_symbol, step_counter, stream, written>>
vars == <<pc, melody, err, gen_vars, save_vars>>

\* ---- generate_melody ----

Init ==
    /\ pc = "generate"
    /\ seed_arg \in SeqsUpTo(SeedChars, MaxSeedLen)
    /\ num_steps \in 0..MaxSteps
    /\ max_sequence_length \in 0..(SEQUENCE_LENGTH + 1)
    /\ temperature \in Temperatures
    /\ seed = <<>>
    /\ melody = <<>>
    /\ step = 0
    /\ model_calls = 0
    /\ model_input = <<>>
    /\ drawn = <<>>
    /\ err = "none"
    /\ step_duration = 25
    /\ i = 0
    /\ start_symbol = None
    /\ step_counter = 1
    /\ stream = <<>>
    /\ written = <<>>

\* lines 51-54: split the seed, copy it to the melody, prime and map the context
Prime ==
    /\ pc = "generate"
    /\ melody' = InitialMelody(split(seed_arg))
    /\ seed' = MapSeed(start_symbols \o split(seed_arg))
    /\ pc' = "loop"
    /\ UNCHANGED <<seed_arg, num_steps, max_sequence_length, temperature, step,
                   model_calls, model_input, drawn, err, save_vars>>

\* lines 58-59: the context holds a "?" and torch.tensor raises
IterateTensorRaises ==
    /\ pc = "loop"
    /\ step < num_steps
    /\ ~TensorOk(SliceLast(seed, max_sequence_length))
    /\ seed' = SliceLast(seed, max_sequence_length)
    /\ step' = step + 1
    /\ pc' = "raised"
    /\ err' = "TypeError"
    /\ UNCHANGED <<seed_arg, num_steps, max_sequence_length, temperature, melody,
                   model_calls, model_input, drawn, save_vars>>

\* lines 58-66 with temperature 0: output.div(0) is inf/nan, the softmax is
\* nan, and np.random.choice raises on the nan probabilities
IterateSampleRaises ==
    /\ pc = "loop"
    /\ step < num_steps
    /\ TensorOk(SliceLast(seed, max_sequence_length))
    /\ temperature = 0
    /\ seed' = SliceLast(seed, max_sequence_length)
    /\ model_input' = SliceLast(seed, max_sequence_length)
    /\ model_calls' = model_calls + 1
    /\ step' = step + 1
    /\ pc' = "raised"
    /\ err' = "ValueError"
    /\ UNCHANGED <<seed_arg, num_steps, max_sequence_length, temperature, melody,
                   drawn, save_vars>>

\* lines 58-75: one full iteration; any id can be drawn (every probability
\* is positive for a non-zero temperature, of either sign)
Iterate ==
    /\ pc = "loop"
    /\ step < num_steps
    /\ TensorOk(SliceLast(seed, max_sequence_length))
    /\ temperature # 0
    /\ \E output_int \in choices :
        /\ seed' = Append(SliceLast(seed, max_sequence_length), output_int)
        /\ model_input' = SliceLast(seed, max_sequence_length)
        /\ model_calls' = model_calls + 1
        /\ drawn' = Append(drawn, output_int)
        /\ melody' = MelodyAfter(melody, SymbolOf(output_int))
        /\ pc' = PcAfter(SymbolOf(output_int))
    /\ step' = step + 1
    /\ UNCHANGED <<seed_arg, num_steps, max_sequence_length, temperature, err,
                   save_vars>>

\* lines 77-78: the loop is exhausted or was left by break
Return ==
    /\ \/ pc = "loop" /\ step >= num_steps
       \/ pc = "break"
    /\ pc' = "returned"
    /\ UNCHANGED <<melody, err, gen_vars, save_vars>>

Next == Prime \/ IterateTensorRaises \/ IterateSampleRaises \/ Iterate \/ Return

Spec == Init /\ [][Next]_vars

\* the call runs to its end: nothing suspends a sequential Python function
FairSpec == Spec /\ WF_vars(Next)

\* ---- save_melody ----

SaveInit ==
    /\ pc = "save"
    /\ melody \in SeqsUpTo(SaveTokens, MaxMelodyLen)
    /\ step_duration \in StepDurations
    /\ i = 0
    /\ start_symbol = None
    /\ step_counter = 1
    /\ stream = <<>>
    /\ written = <<>>
    /\ err = "none"
    /\ seed_arg = <<>>
    /\ num_steps = 0
    /\ max_sequence_length = SEQUENCE_LENGTH
    /\ temperature = 1
    /\ seed = <<>>
    /\ step = 0
    /\ model_calls = 0
    /\ model_input = <<>>
    /\ drawn = <<>>

\* lines 95-96, 106-107: a "_" that is not the last token extends the run
SaveCount ==
    /\ pc = "save"
    /\ i < Len(melody)
    /\ melody[i + 1] = UNDERSCORE
    /\ i + 1 # Len(melody)
    /\ step_counter' = step_counter + 1
    /\ i' = i + 1
    /\ UNCHANGED <<pc, melody, err, gen_vars, step_duration, start_symbol, stream,
                   written>>

\* lines 95-97, 105: a closing token while no run is open
SaveOpenFirst ==
    /\ pc = "save"
    /\ i < Len(melody)
    /\ melody[i + 1] # UNDERSCORE \/ i + 1 = Len(melody)
    /\ start_symbol = None
    /\ start_symbol' = melody[i + 1]
    /\ i' = i + 1
    /\ UNCHANGED <<pc, melody, err, gen_vars, step_duration, step_counter, stream,
                   written>>

\* lines 95-105: a closing token emits the open run and becomes start_symbol
SaveEmit ==
    /\ pc = "save"
    /\ i < Len(melody)
    /\ melody[i + 1] # UNDERSCORE \/ i + 1 = Len(melody)
    /\ start_symbol # None
    /\ start_symbol = REST \/ IntOk(start_symbol)
    /\ stream' = Append(stream,
                        IF start_symbol = REST
                        THEN Rest(step_duration * step_counter)
                        ELSE Note(int(start_symbol), step_duration * step_counter))
    /\ step_counter' = 1
    /\ start_symbol' = melody[i + 1]
    /\ i' = i + 1
    /\ UNCHANGED <<pc, melody, err, gen_vars, step_duration, written>>

\* line 102: int(start_symbol) raises on a token that is not an integer
SaveIntRaises ==
    /\ pc = "save"
    /\ i < Len(melody)
    /\ melody[i + 1] # UNDERSCORE \/ i + 1 = Len(melody)
    /\ start_symbol # None
    /\ start_symbol # REST
    /\ ~IntOk(start_symbol)
    /\ pc' = "raised"
    /\ err' = "ValueError"
    /\ UNCHANGED <<melody, gen_vars, save_vars>>

\* line 109: stream.write(format, file_name)
SaveWrite ==
    /\ pc = "save"
    /\ i = Len(melody)
    /\ written' = stream
    /\ pc' = "saved"
    /\ UNCHANGED <<melody, err, gen_vars, step_duration, i, start_symbol,
                   step_counter, stream>>

SaveNext == SaveCount \/ SaveOpenFirst \/ SaveEmit \/ SaveIntRaises \/ SaveWrite

SaveSpec == SaveInit /\ [][SaveNext]_vars

\* ---- reference notions used to state the properties ----

IsWs(c) == c \in Whitespace
WordStarts(s) == {a \in 1..Len(s) : ~IsWs(s[a]) /\ (a = 1 \/ IsWs(s[a - 1]))}
WordEnd(s, a) ==
    CHOOSE b \in a..Len(s) : /\ \A k \in a..b : ~IsWs(s[k])
                             /\ (b = Len(s) \/ IsWs(s[b + 1]))
NthOf(S, n) == CHOOSE a \in S : Cardinality({b \in S : b <= a}) = n
\* the whitespace-delimited words of a string, stated without a scan
Words(s) ==
    [n \in 1..Cardinality(WordStarts(s)) |->
        SubSeq(s, NthOf(WordStarts(s), n), WordEnd(s, NthOf(WordStarts(s), n)))]

SeedTokens == Words(seed_arg)
TakeLast(s, n) == [k \in 1..n |-> s[Len(s) - n + k]]
\* start padding + mapped seed ids + the first n ids drawn
IdsBeforeDraw(n) == MapSeed(start_symbols \o SeedTokens) \o SubSeq(drawn, 1, n)
DrawnSymbols == [k \in 1..Len(drawn) |-> SymbolOf(drawn[k])]
IsNotTerminator(t) == t # TERMINATOR
TerminatorDrawn == drawn # <<>> /\ SymbolOf(drawn[Len(drawn)]) = TERMINATOR
Halted == pc \in {"returned", "raised"}

Opens(m) == {j \in 1..Len(m) : m[j] # UNDERSCORE}
\* the "_" tokens that follow position j before the next non-"_" token
Trailing(m, j) ==
    Cardinality({k \in (j + 1)..Len(m) : \A l \in (j + 1)..k : m[l] = UNDERSCORE})
EventOf(tok, q) == IF tok = REST THEN Rest(q) ELSE Note(int(tok), q)
RunLengthEvents(m, d) ==
    [n \in 1..Cardinality(Opens(m)) |->
        EventOf(m[NthOf(Opens(m), n)], d * (1 + Trailing(m, NthOf(Opens(m), n))))]
WellFormed(m) ==
    /\ Len(m) > 0
    /\ m[1] # UNDERSCORE
    /\ \A k \in 1..Len(m) : m[k] = UNDERSCORE \/ m[k] = REST \/ IntOk(m[k])
RECURSIVE TotalDuration(_)
TotalDuration(events) ==
    IF Len(events) = 0 THEN 0
    ELSE events[1].quarterLength + TotalDuration(Tail(events))

\* ---- properties of save_melody (SaveSpec) ----

\* C1: for a melody that does not start with "_" and whose other tokens are
\* "r" or integers, the events written are the run-length decoding of the
\* melody: one event per opening token, in order, a Rest for "r" and a Note
\* of the integer pitch otherwise, of duration
\* step_duration * (1 + the "_" tokens that follow it).
C1_DecodeRunLength ==
    (pc = "saved" /\ WellFormed(melody))
        => written = RunLengthEvents(melody, step_duration)

\* C2: for a non-empty melody the run open at the last token is emitted too,
\* so every run (every non-"_" token) has exactly one event in what is written.
C2_EveryRunEmitted ==
    (pc = "saved" /\ Len(melody) > 0)
        => Len(written) = Cardinality(Opens(melody))

\* C3: for a non-empty melody the durations of the events written sum to
\* len(melody) * step_duration.
C3_TotalDuration ==
    (pc = "saved" /\ Len(melody) > 0)
        => TotalDuration(written) = Len(melody) * step_duration

\* ---- properties of generate_melody (Spec, FairSpec) ----

\* C4 as stated: the returned melody never contains the terminator "/".
C4_NoTerminatorInMelody ==
    pc = "returned" => \A k \in 1..Len(melody) : melody[k] # TERMINATOR

\* C4 amended: no token that generation appended to the returned melody is
\* the terminator "/"; the melody contains "/" only if the seed does.
C4_NoGeneratedTerminator ==
    pc = "returned" =>
        /\ \A k \in (Len(SeedTokens) + 1)..Len(melody) : melody[k] # TERMINATOR
        /\ TERMINATOR \in Range(melody) <=> TERMINATOR \in Range(SeedTokens)

C4_Witness ==
    /\ pc = "returned"
    /\ Len(drawn) = 2
    /\ SymbolOf(drawn[1]) # TERMINATOR
    /\ SymbolOf(drawn[2]) = TERMINATOR
    /\ Len(melody) = Len(SeedTokens) + 1

\* C5: generate_melody always halts; the model is scored and an id drawn at
\* most num_steps times; once a drawn id maps to the terminator there is no
\* further scoring or draw, nothing more is appended to the melody, and the
\* call returns.
C5_Halts ==
    /\ <>Halted
    /\ [](model_calls <= num_steps /\ Len(drawn) <= num_steps)
    /\ [](TerminatorDrawn => <>(pc = "returned"))
    /\ [][TerminatorDrawn => /\ drawn' = drawn
                             /\ model_calls' = model_calls
                             /\ melody' = melody
                             /\ seed' = seed]_vars

C5_Witness ==
    /\ pc = "returned"
    /\ TerminatorDrawn
    /\ Len(drawn) < num_steps
    /\ seed[Len(seed)] = drawn[Len(drawn)]

\* C6 as stated: the returned melody has length at most num_steps and
\* contains none of the start-padding symbols.
C6_LengthAtMostNumSteps ==
    pc = "returned" =>
        /\ Len(melody) <= num_steps
        /\ \A k \in 1..Len(melody) : melody[k] \notin Range(start_symbols)

\* C6 amended: the returned melody has length at most (number of seed
\* tokens + num_steps), at most num_steps of its tokens being generated, and
\* the start padding is not part of it: it starts with the seed's own tokens
\* and holds a start symbol only where the seed holds one.
C6_LengthAtMostSeedPlusNumSteps ==
    pc = "returned" =>
        /\ Len(melody) <= Len(SeedTokens) + num_steps
        /\ Len(melody) >= Len(SeedTokens)
        /\ \A k \in 1..Len(melody) :
              melody[k] \in Range(start_symbols)
                  => (k <= Len(SeedTokens) /\ SeedTokens[k] = melody[k])

C6_Witness ==
    /\ pc = "returned"
    /\ num_steps >= 1
    /\ Len(SeedTokens) >= 1
    /\ Len(melody) = Len(SeedTokens) + num_steps
    /\ Len(melody) > num_steps

\* C7: with num_steps = 0 the call returns exactly the whitespace-split seed
\* tokens without invoking the model; for any num_steps the returned melody
\* is those tokens followed by the non-terminator symbols drawn, in draw order.
C7_SeedThenDrawnSymbols ==
    pc = "returned" =>
        /\ melody = SeedTokens \o SelectSeq(DrawnSymbols, IsNotTerminator)
        /\ num_steps = 0 => (melody = SeedTokens /\ model_calls = 0)

C7_Witness ==
    /\ pc = "returned"
    /\ num_steps = 0
    /\ Len(seed_arg) = 3
    /\ IsWs(seed_arg[2])
    /\ Len(melody) = 2

\* C8: an unmapped seed token becomes the sentinel without raising and every
\* generation step still completes, also with the sentinel inside the window.
C8_UnmappedSeedProceeds ==
    (temperature > 0 /\ QUESTION \in Range(MapSeed(SeedTokens)))
        => pc # "raised"

\* C9: with temperature <= 0 and num_steps >= 1 the call fails: no id is
\* drawn and no melody is returned.
C9_NonPositiveTemperatureFails ==
    (temperature <= 0 /\ num_steps >= 1)
        => (drawn = <<>> /\ pc # "returned")

\* C10: with 1 <= max_sequence_length <= SEQUENCE_LENGTH the context passed
\* to the model at every step is exactly the last max_sequence_length entries
\* of (start padding + mapped seed ids + ids drawn so far), so its length is
\* exactly max_sequence_length; the drawn id is appended to that context.
C10_ContextIsLastWindow ==
    (model_calls > 0 /\ 1 <= max_sequence_length
                     /\ max_sequence_length <= SEQUENCE_LENGTH) =>
        /\ model_input = TakeLast(IdsBeforeDraw(model_calls - 1), max_sequence_length)
        /\ Len(model_input) = max_sequence_length
        /\ pc \in {"loop", "break", "returned"}
              => seed = Append(model_input, drawn[Len(drawn)])

C10_Witness ==
    /\ model_calls = 2
    /\ 1 <= max_sequence_length
    /\ max_sequence_length <= SEQUENCE_LENGTH
    /\ Len(SeedTokens) >= 1
    /\ Len(drawn) = 2
    /\ model_input[Len(model_input)] = drawn[1]
    /\ Len(seed) = max_sequence_length + 1

====
